---- MODULE Spec2Model ----
(***************************************************************************)
(* Cart & order lifecycle of the storefront client.                        *)
(*                                                                         *)
(* The model follows src/src/contexts/CartContext.tsx (CartProvider),      *)
(* src/src/contexts/AuthContext.tsx (AuthProvider), src/src/App.tsx        *)
(* (CartAuthSync) and the ApiClient's token storage.  React is modelled by *)
(* what the components rely on: state updates are queued, a render folds   *)
(* the queues into the committed state, and the effects whose dependencies *)
(* changed run after the commit, children before parents.                  *)
(***************************************************************************)
EXTENDS FiniteSets, Integers, Sequences, TLC

\* ------------------------------------------------------------------ bounds
MaxStock == 2
MaxQty == 3
MaxMutations == 3
MaxSwitches == 5
MaxOrders == 2
MaxPays == 3
MaxInFlight == 3

\* ------------------------------------------------------------- input sets
\* null of JavaScript (userId: string | null, user: User | null)
NULL == "NULL"
\* undefined of JavaScript (an optional field that is not set)
UNDEFINED == "UNDEFINED"

UserIds == {"u1", "u2"}
Identities == UserIds \cup {NULL}
ProductIds == {"p1", "p2"}
Quantities == 0..MaxQty
Stocks == 0..MaxStock

\* The catalogue record of a product, as the backend returns it; the stock
\* is the part that changes from one visit to the next.
ProductName(p) == IF p = "p1" THEN "Bauble" ELSE "Garland"
ProductPrice(p) == IF p = "p1" THEN 250 ELSE 1000
ProductImage(p) == IF p = "p1" THEN UNDEFINED ELSE "data:image/png"
Product(p, s) ==
    [id |-> p, name |-> ProductName(p), priceCents |-> ProductPrice(p),
     imageBase64 |-> ProductImage(p), stock |-> s]

\* ------------------------------------------------------------ localStorage
\* A stored value is <<>> (getItem returns null) or <<text>>.
\* (variant: one key for every identity)
getCartKeyShared(uid) == "cart_guest"

getCartKey(uid) == IF uid # NULL /\ uid # "" THEN "cart_" \o uid ELSE "cart_guest"

CartKeys == {getCartKey(u) : u \in Identities}
StorageKeys == CartKeys \cup {"authToken", "user"}

\* JSON.stringify of a CartItem[]: a property whose value is undefined is
\* left out of the text.
StringifyItem(it) ==
    [productId |-> it.productId, name |-> it.name, priceCents |-> it.priceCents,
     imageBase64 |-> IF it.imageBase64 = UNDEFINED THEN "(omitted)" ELSE it.imageBase64,
     quantity |-> it.quantity, stock |-> it.stock]
Stringify(its) == [i \in 1..Len(its) |-> StringifyItem(its[i])]

\* JSON.parse of such a text: a property that is not in the text reads as
\* undefined.
ParseItem(js) ==
    [productId |-> js.productId, name |-> js.name, priceCents |-> js.priceCents,
     imageBase64 |-> IF js.imageBase64 = "(omitted)" THEN UNDEFINED ELSE js.imageBase64,
     quantity |-> js.quantity, stock |-> js.stock]
Parse(text) == [i \in 1..Len(text) |-> ParseItem(text[i])]

\* saved ? JSON.parse(saved) : []
SavedCart(saved) == IF saved # <<>> THEN Parse(saved[1]) ELSE <<>>

\* ------------------------------------------------------------ state
VARIABLES
    user,          \* AuthProvider: id of the user state, or NULL
    userId,        \* CartProvider: userId state
    items,         \* CartProvider: items state (the committed render)
    userQ,         \* pending setUser updates
    userIdQ,       \* pending setUserIdState updates
    itemsQ,        \* pending setItems updates
    effects,       \* effects of the last commit that have not run yet
    localStorage,  \* window.localStorage
    h,             \* the last call made on the provider and the state it saw
    departed,      \* per identity: the cart in memory when it was last left
                   \* (by setUserId or by a reload of the page)
    nMut,          \* number of cart mutations so far
    nSw,           \* number of identity changes and reloads so far
    \* Cart page
    checkingOut,   \* Cart: checkingOut state
    checkoutError, \* Cart: error state
    createReq,     \* the createOrder request in flight: <<>> or <<body>>
    serverOrders,  \* the bodies of the orders the server has created
    ch,            \* the last checkout that was sent: who sent it and with
                   \* which cart; the number of cart mutations when the
                   \* server last accepted an order (-1: none accepted)
    \* OrderDetails page
    mounted,       \* OrderDetails has been rendered and its effect has run
    order,         \* OrderDetails: order state (the cached order), or NullOrder
    loading,       \* OrderDetails: loading state
    orderError,    \* OrderDetails: error state
    paying,        \* OrderDetails: paying state
    payReqs,       \* number of payOrder requests in flight
    loadReqs,      \* the getOrder requests in flight, by what started them
    timers,        \* number of setTimeout callbacks that have not run yet
    serverStatus,  \* the status of the order on the server
    oh,            \* the last event on the OrderDetails page and the state it saw
    nPay,          \* number of payOrder requests sent so far
    \* storage keys
    keyIn,         \* the user ids getCartKey is applied to
    keyOut,        \* the keys it returned for them and for the guest
    \* OrderDetails instances that have been unmounted
    stalePay,      \* number of their payOrder requests in flight
    staleLoads,    \* number of their getOrder requests in flight
    staleTimers,   \* number of their setTimeout callbacks that have not run yet
    \* AdminOrders page
    adminStatus,   \* AdminOrders: the status of the order in the orders state
    adminReqs,     \* the requests of AdminOrders in flight (getAllOrders, updateOrderStatus)
    \* AuthProvider
    profileReq,    \* the getProfile request of refreshUser in flight: <<>> or <<id>>
    \* ProductDetails page
    viewedProduct,    \* ProductDetails: product state, or NullProduct
    selectedQuantity, \* ProductDetails: quantity state
    addingToCart      \* ProductDetails: addingToCart state

checkoutVars == <<checkingOut, checkoutError, createReq, serverOrders, ch>>
orderVars == <<mounted, order, loading, orderError, paying, payReqs, loadReqs,
               timers, serverStatus, oh, nPay>>
keyVars == <<keyIn, keyOut>>
staleVars == <<stalePay, staleLoads, staleTimers>>
adminVars == <<adminStatus, adminReqs>>
productVars == <<viewedProduct, selectedQuantity, addingToCart>>
otherPages == <<keyVars, staleVars, adminVars, profileReq, productVars>>
pageVars == <<checkoutVars, orderVars, otherPages>>

vars == <<user, userId, items, userQ, userIdQ, itemsQ, effects, localStorage,
          h, departed, nMut, nSw, pageVars>>

\* ------------------------------------------------------------ updaters
HasItem(its, p) == \E i \in 1..Len(its) : its[i].productId = p
ItemOf(its, p) == its[CHOOSE i \in 1..Len(its) :
                        /\ its[i].productId = p
                        /\ \A j \in 1..(i - 1) : its[j].productId # p]

\* the updater of addToCart
\* (variant: a line is appended whether or not the product has one)
AddUpdaterAppends(prevItems, product, quantity) ==
    Append(prevItems,
        [productId |-> product.id, name |-> product.name,
         priceCents |-> product.priceCents, imageBase64 |-> product.imageBase64,
         quantity |-> quantity, stock |-> product.stock])

AddUpdater(prevItems, product, quantity) ==
    IF HasItem(prevItems, product.id)
    THEN IF quantity > product.stock
         THEN prevItems
         ELSE [i \in 1..Len(prevItems) |->
                 IF prevItems[i].productId = product.id
                 THEN [prevItems[i] EXCEPT !.quantity = quantity]
                 ELSE prevItems[i]]
    ELSE Append(prevItems,
            [productId |-> product.id, name |-> product.name,
             priceCents |-> product.priceCents, imageBase64 |-> product.imageBase64,
             quantity |-> quantity, stock |-> product.stock])

\* addToCart returns the array it was given (no new reference) only here
AddKeepsReference(prevItems, product, quantity) ==
    HasItem(prevItems, product.id) /\ quantity > product.stock

\* the updater of removeFromCart
RemoveUpdater(prevItems, productId) ==
    SelectSeq(prevItems, LAMBDA it : it.productId # productId)

\* the updater of updateQuantity (quantity > 0)
\* (variant: a quantity above the stock is clamped to the stock)
UpdateUpdaterClamp(prevItems, productId, quantity) ==
    [i \in 1..Len(prevItems) |->
        IF prevItems[i].productId = productId
        THEN IF quantity > prevItems[i].stock
             THEN [prevItems[i] EXCEPT !.quantity = prevItems[i].stock]
             ELSE [prevItems[i] EXCEPT !.quantity = quantity]
        ELSE prevItems[i]]

UpdateUpdater(prevItems, productId, quantity) ==
    [i \in 1..Len(prevItems) |->
        IF prevItems[i].productId = productId
        THEN IF quantity > prevItems[i].stock
             THEN prevItems[i]
             ELSE [prevItems[i] EXCEPT !.quantity = quantity]
        ELSE prevItems[i]]

\* One queued setItems call.  kind: "add", "remove", "update" (functional
\* updates), "set" (setItems(value)), "reset" (the updater of setUserId,
\* which writes the cart it is given under key, if any, and returns []).
Update(kind, p, q, s, value, key) ==
    [kind |-> kind, p |-> p, q |-> q, s |-> s, value |-> value, key |-> key]

ApplyUpdate(u, its) ==
    CASE u.kind = "add" -> AddUpdater(its, Product(u.p, u.s), u.q)
      [] u.kind = "remove" -> RemoveUpdater(its, u.p)
      [] u.kind = "update" -> UpdateUpdater(its, u.p, u.q)
      [] u.kind = "set" -> u.value
      [] u.kind = "reset" -> <<>>

NewReference(u, its) ==
    ~(u.kind = "add" /\ AddKeepsReference(its, Product(u.p, u.s), u.q))

\* The render folds the queue over the committed items.  Result: the new
\* items, localStorage after the writes the updaters made, and whether the
\* items array is a new reference.
RECURSIVE ProcessQueue(_, _, _, _)
ProcessQueue(queue, its, ls, changed) ==
    IF queue = <<>>
    THEN [items |-> its, ls |-> ls, changed |-> changed]
    ELSE LET u == Head(queue)
             ls2 == IF u.kind = "reset" /\ u.key # NULL
                    THEN [ls EXCEPT ![u.key] = <<Stringify(its)>>]
                    ELSE ls
         IN ProcessQueue(Tail(queue), ApplyUpdate(u, its), ls2,
                         changed \/ NewReference(u, its))

\* the items a functional update queued now would be given
CurrentItems == ProcessQueue(itemsQ, items, localStorage, FALSE).items

Last(queue, committed) == IF queue = <<>> THEN committed ELSE queue[Len(queue)]

\* ------------------------------------------------------------ React
Idle == effects = <<>> /\ itemsQ = <<>> /\ userIdQ = <<>> /\ userQ = <<>>

\* Effects of the first commit: CartAuthSync's (the child) before
\* CartProvider's two, before AuthProvider's.
MountEffects == <<"sync", "load", "persist", "authInit">>

\* Effects that run after a later commit, in the order React runs them:
\* CartAuthSync [user?.id], then CartProvider's [userId] and [items, userId].
\* (variant: the [items, userId] effect declared before the [userId] effect)
EffectsPersistFirst(userChanged, userIdChanged, itemsChanged) ==
    (IF userChanged THEN <<"sync">> ELSE <<>>)
    \o (IF itemsChanged \/ userIdChanged THEN <<"persist">> ELSE <<>>)
    \o (IF userIdChanged THEN <<"load">> ELSE <<>>)

EffectsAfterCommit(userChanged, userIdChanged, itemsChanged) ==
    (IF userChanged THEN <<"sync">> ELSE <<>>)
    \o (IF userIdChanged THEN <<"load">> ELSE <<>>)
    \o (IF itemsChanged \/ userIdChanged THEN <<"persist">> ELSE <<>>)

\* the record of a call: its arguments and the state it was made in
Call(op, p, q, s, k, snap) ==
    [op |-> op, p |-> p, q |-> q, s |-> s, k |-> k,
     userId0 |-> userId, items0 |-> items, snap0 |-> snap]

\* the key setUserId's updater writes the current cart under (NULL: none)
\* (variant: the cart is flushed under the key of the new identity)
FlushKeyNew(current, newUserId) ==
    IF current # NULL THEN getCartKey(newUserId) ELSE NULL

FlushKey(current, newUserId) ==
    IF current # NULL THEN getCartKey(current) ELSE NULL

\* setUserId(newUserId), with the userId of the render that created it
setUserId(newUserId) ==
    /\ itemsQ' = Append(itemsQ, Update("reset", "", 0, 0, <<>>, FlushKey(userId, newUserId)))
    /\ userIdQ' = Append(userIdQ, newUserId)
    /\ departed' = IF newUserId # userId
                   THEN [departed EXCEPT ![userId] = <<CurrentItems>>]
                   ELSE departed

\* ------------------------------------------------------------ Init
\* the order state of OrderDetails before an order has been loaded (null)
NullOrder == [id |-> NULL, status |-> NULL]

\* the record of an event on the OrderDetails page: what happened and the
\* state it happened in
OrderEvent(ev, msg, cause) ==
    [ev |-> ev, msg |-> msg, cause |-> cause, order0 |-> order,
     error0 |-> orderError, paying0 |-> paying, payReqs0 |-> payReqs,
     timers0 |-> timers, server0 |-> serverStatus]

\* Cart: useState(false), useState(null); nothing sent yet
CartPageInit ==
    /\ checkingOut = FALSE
    /\ checkoutError = NULL
    /\ createReq = <<>>
    /\ serverOrders = <<>>
    /\ ch = [userId |-> NULL, items |-> <<>>, acceptedMut |-> -1]

\* OrderDetails: useState(null), useState(true), useState(null),
\* useState(false); the order exists on the server and has not been paid
OrderDetailsInit ==
    /\ mounted = FALSE
    /\ order = NullOrder
    /\ loading = TRUE
    /\ orderError = NULL
    /\ paying = FALSE
    /\ payReqs = 0
    /\ loadReqs = <<>>
    /\ timers = 0
    /\ serverStatus = "created"
    /\ oh = OrderEvent("none", NULL, NULL)
    /\ nPay = 0

\* the product state of ProductDetails before a product has been loaded
NullProduct == [id |-> NULL, name |-> NULL, priceCents |-> 0,
                imageBase64 |-> UNDEFINED, stock |-> 0]

\* AdminOrders: no order loaded, nothing sent; no refreshUser running;
\* ProductDetails: useState(null), useState(1), useState(false)
OtherPagesInit ==
    /\ stalePay = 0
    /\ staleLoads = 0
    /\ staleTimers = 0
    /\ adminStatus = NULL
    /\ adminReqs = <<>>
    /\ profileReq = <<>>
    /\ viewedProduct = NullProduct
    /\ selectedQuantity = 1
    /\ addingToCart = FALSE

CartInit ==
    /\ user = NULL
    /\ userId = NULL
    /\ items = <<>>
    /\ userQ = <<>>
    /\ userIdQ = <<>>
    /\ itemsQ = <<>>
    /\ effects = MountEffects
    /\ localStorage = [k \in StorageKeys |-> <<>>]
    /\ h = Call("none", "", 0, 0, NULL, <<>>)
    /\ departed = [i \in Identities |-> <<>>]
    /\ nMut = 0
    /\ nSw = 0

Init ==
    /\ CartInit
    /\ CartPageInit
    /\ OrderDetailsInit
    /\ OtherPagesInit
    /\ keyIn = <<>>
    /\ keyOut = <<>>

\* ------------------------------------------------------------ cart calls
AddToCart(p, s, q) ==
    /\ Idle /\ nMut < MaxMutations
    /\ itemsQ' = Append(itemsQ, Update("add", p, q, s, <<>>, NULL))
    /\ h' = Call("addToCart", p, q, s, NULL, <<>>)
    /\ nMut' = nMut + 1
    /\ UNCHANGED <<user, userId, items, userQ, userIdQ, effects, localStorage, departed, nSw, pageVars>>

RemoveFromCart(p) ==
    /\ Idle /\ nMut < MaxMutations
    /\ itemsQ' = Append(itemsQ, Update("remove", p, 0, 0, <<>>, NULL))
    /\ h' = Call("removeFromCart", p, 0, 0, NULL, <<>>)
    /\ nMut' = nMut + 1
    /\ UNCHANGED <<user, userId, items, userQ, userIdQ, effects, localStorage, departed, nSw, pageVars>>

UpdateQuantity(p, q) ==
    /\ Idle /\ nMut < MaxMutations
    /\ itemsQ' = IF q <= 0
                 THEN Append(itemsQ, Update("remove", p, 0, 0, <<>>, NULL))
                 ELSE Append(itemsQ, Update("update", p, q, 0, <<>>, NULL))
    /\ h' = Call("updateQuantity", p, q, 0, NULL, <<>>)
    /\ nMut' = nMut + 1
    /\ UNCHANGED <<user, userId, items, userQ, userIdQ, effects, localStorage, departed, nSw, pageVars>>

ClearCart ==
    /\ Idle /\ nMut < MaxMutations
    /\ itemsQ' = Append(itemsQ, Update("set", "", 0, 0, <<>>, NULL))
    /\ h' = Call("clearCart", "", 0, 0, NULL, <<>>)
    /\ nMut' = nMut + 1
    /\ UNCHANGED <<user, userId, items, userQ, userIdQ, effects, localStorage, departed, nSw, pageVars>>

\* setUserId called on the context value
SetUserId(k) ==
    /\ Idle /\ nSw < MaxSwitches
    /\ setUserId(k)
    /\ h' = Call("setUserId", "", 0, 0, k, localStorage[getCartKey(k)])
    /\ nSw' = nSw + 1
    /\ UNCHANGED <<user, userId, items, userQ, effects, localStorage, nMut, pageVars>>

\* ------------------------------------------------------------ auth calls
Token(u) == "token_" \o u

\* login / register, at the moment the server's response arrives
Login(u) ==
    /\ Idle /\ nSw < MaxSwitches
    /\ localStorage' = [localStorage EXCEPT !["authToken"] = <<Token(u)>>,
                                            !["user"] = <<u>>]
    /\ userQ' = Append(userQ, u)
    /\ h' = Call("login", "", 0, 0, u, localStorage[getCartKey(u)])
    /\ nSw' = nSw + 1
    /\ UNCHANGED <<user, userId, items, userIdQ, itemsQ, effects, departed, nMut, pageVars>>

Logout ==
    /\ Idle /\ nSw < MaxSwitches
    /\ localStorage' = [localStorage EXCEPT !["authToken"] = <<>>, !["user"] = <<>>]
    /\ userQ' = Append(userQ, NULL)
    /\ h' = Call("logout", "", 0, 0, NULL, localStorage[getCartKey(NULL)])
    /\ nSw' = nSw + 1
    /\ UNCHANGED <<user, userId, items, userIdQ, itemsQ, effects, departed, nMut, pageVars>>

\* the page is loaded again: the React state is constructed anew,
\* localStorage stays
Reload ==
    /\ Idle /\ nSw < MaxSwitches
    /\ user' = NULL
    /\ userId' = NULL
    /\ items' = <<>>
    /\ effects' = MountEffects
    /\ h' = Call("reload", "", 0, 0, NULL, <<>>)
    /\ departed' = [departed EXCEPT ![userId] = <<items>>]
    /\ nSw' = nSw + 1
    /\ UNCHANGED <<userQ, userIdQ, itemsQ, localStorage, nMut, pageVars>>

\* ------------------------------------------------------------ effects
\* CartAuthSync: setUserId(user?.id || null)
SyncEffect ==
    /\ effects # <<>> /\ Head(effects) = "sync"
    /\ setUserId(IF user # NULL /\ user # "" THEN user ELSE NULL)
    /\ effects' = Tail(effects)
    /\ UNCHANGED <<user, userId, items, userQ, localStorage, h, nMut, nSw, pageVars>>

\* CartProvider, effect on [userId]
LoadEffect ==
    /\ effects # <<>> /\ Head(effects) = "load"
    /\ itemsQ' = Append(itemsQ,
           Update("set", "", 0, 0, SavedCart(localStorage[getCartKey(userId)]), NULL))
    /\ effects' = Tail(effects)
    /\ UNCHANGED <<user, userId, items, userQ, userIdQ, localStorage, h, departed, nMut, nSw, pageVars>>

\* CartProvider, effect on [items, userId]
PersistEffect ==
    /\ effects # <<>> /\ Head(effects) = "persist"
    /\ localStorage' = IF userId # NULL
                       THEN [localStorage EXCEPT ![getCartKey(userId)] = <<Stringify(items)>>]
                       ELSE localStorage
    /\ effects' = Tail(effects)
    /\ UNCHANGED <<user, userId, items, userQ, userIdQ, itemsQ, h, departed, nMut, nSw, pageVars>>

\* AuthProvider, effect on []
AuthInitEffect ==
    /\ effects # <<>> /\ Head(effects) = "authInit"
    /\ userQ' = IF /\ localStorage["user"] # <<>>
                   /\ localStorage["authToken"] # <<>>
                   /\ localStorage["authToken"][1] # ""
                THEN Append(userQ, localStorage["user"][1])
                ELSE userQ
    /\ effects' = Tail(effects)
    /\ UNCHANGED <<user, userId, items, userIdQ, itemsQ, localStorage, h, departed, nMut, nSw, pageVars>>

\* ------------------------------------------------------------ render
\* React renders once the effects of the previous commit have run.
Render ==
    /\ effects = <<>>
    /\ itemsQ # <<>> \/ userIdQ # <<>> \/ userQ # <<>>
    /\ LET r == ProcessQueue(itemsQ, items, localStorage, FALSE)
           newUserId == Last(userIdQ, userId)
           newUser == Last(userQ, user)
       IN /\ items' = r.items
          /\ localStorage' = r.ls
          /\ userId' = newUserId
          /\ user' = newUser
          /\ effects' = EffectsAfterCommit(newUser # user, newUserId # userId, r.changed)
    /\ itemsQ' = <<>>
    /\ userIdQ' = <<>>
    /\ userQ' = <<>>
    /\ UNCHANGED <<h, departed, nMut, nSw, pageVars>>

\* what React does on its own: the pending effects, then the next render
ReactStep ==
    \/ SyncEffect
    \/ LoadEffect
    \/ PersistEffect
    \/ AuthInitEffect
    \/ Render

\* The cart calls, one at a time, with every quantity and every stock.
Next ==
    \/ \E p \in ProductIds, s \in Stocks, q \in Quantities : AddToCart(p, s, q)
    \/ \E p \in ProductIds, q \in Quantities : UpdateQuantity(p, q)
    \/ \E p \in ProductIds : RemoveFromCart(p)
    \/ ClearCart
    \/ ReactStep

Spec == Init /\ [][Next]_vars

\* The identity changes, with cart calls in between that make the carts of
\* the identities differ.
NextIdentity ==
    \/ \E p \in ProductIds : AddToCart(p, MaxStock, 1)
    \/ \E p \in ProductIds : UpdateQuantity(p, MaxStock)
    \/ \E p \in ProductIds : RemoveFromCart(p)
    \/ ClearCart
    \/ \E k \in Identities : SetUserId(k)
    \/ \E u \in UserIds : Login(u)
    \/ Logout
    \/ Reload
    \/ ReactStep

SpecIdentity == Init /\ [][NextIdentity]_vars

\* ------------------------------------------------------------ calls during a switch
\* setUserId(k) for another identity has been called and the cart stored for
\* k is not in memory yet: the setState calls of setUserId, or the setItems
\* of the load effect, wait for the next render.  An event handler runs when
\* no effect is pending.
SwitchPending ==
    /\ effects = <<>> /\ userQ = <<>>
    /\ itemsQ # <<>> \/ userIdQ # <<>>
    /\ h.op \in {"setUserId", "login", "logout"}
    /\ h.k # h.userId0

\* the record of a cart call made while a switch is pending: its arguments,
\* and the switch it fell into
CallDuring(op, p, q, s) ==
    [op |-> op, p |-> p, q |-> q, s |-> s, k |-> h.k,
     userId0 |-> h.userId0, items0 |-> h.items0, snap0 |-> h.snap0]

AddToCartDuring(p, s, q) ==
    /\ SwitchPending /\ nMut < MaxMutations
    /\ itemsQ' = Append(itemsQ, Update("add", p, q, s, <<>>, NULL))
    /\ h' = CallDuring("addToCartDuring", p, q, s)
    /\ nMut' = nMut + 1
    /\ UNCHANGED <<user, userId, items, userQ, userIdQ, effects, localStorage, departed, nSw, pageVars>>

RemoveFromCartDuring(p) ==
    /\ SwitchPending /\ nMut < MaxMutations
    /\ itemsQ' = Append(itemsQ, Update("remove", p, 0, 0, <<>>, NULL))
    /\ h' = CallDuring("removeFromCartDuring", p, 0, 0)
    /\ nMut' = nMut + 1
    /\ UNCHANGED <<user, userId, items, userQ, userIdQ, effects, localStorage, departed, nSw, pageVars>>

UpdateQuantityDuring(p, q) ==
    /\ SwitchPending /\ nMut < MaxMutations
    /\ itemsQ' = IF q <= 0
                 THEN Append(itemsQ, Update("remove", p, 0, 0, <<>>, NULL))
                 ELSE Append(itemsQ, Update("update", p, q, 0, <<>>, NULL))
    /\ h' = CallDuring("updateQuantityDuring", p, q, 0)
    /\ nMut' = nMut + 1
    /\ UNCHANGED <<user, userId, items, userQ, userIdQ, effects, localStorage, departed, nSw, pageVars>>

\* the setItems updater a recorded call queued
UpdaterOf(call) ==
    CASE call.op = "addToCartDuring" -> Update("add", call.p, call.q, call.s, <<>>, NULL)
      [] call.op = "removeFromCartDuring" -> Update("remove", call.p, 0, 0, <<>>, NULL)
      [] call.op = "updateQuantityDuring" ->
            IF call.q <= 0 THEN Update("remove", call.p, 0, 0, <<>>, NULL)
                           ELSE Update("update", call.p, call.q, 0, <<>>, NULL)

\* The identity changes, and a cart call may fall between setUserId and the
\* render that puts the stored cart into memory.
NextBarrier ==
    \/ \E pr \in ProductIds : AddToCart(pr, MaxStock, 1)
    \/ \E k \in Identities : SetUserId(k)
    \/ \E u \in UserIds : Login(u)
    \/ Logout
    \/ \E pr \in ProductIds : AddToCartDuring(pr, MaxStock, MaxStock)
    \/ \E pr \in ProductIds : RemoveFromCartDuring(pr)
    \/ \E pr \in ProductIds : UpdateQuantityDuring(pr, MaxStock)
    \/ ReactStep

SpecBarrier == Init /\ [][NextBarrier]_vars

\* ------------------------------------------------------------ Cart page
\* items.reduce((total, item) => total + item.priceCents * item.quantity, 0)
RECURSIVE TotalPrice(_)
TotalPrice(its) ==
    IF its = <<>> THEN 0
    ELSE its[1].priceCents * its[1].quantity + TotalPrice(Tail(its))

\* items.reduce((total, item) => total + item.quantity, 0)
RECURSIVE TotalItems(_)
TotalItems(its) ==
    IF its = <<>> THEN 0 ELSE its[1].quantity + TotalItems(Tail(its))

getTotalPrice == TotalPrice(items)
getTotalItems == TotalItems(items)

\* t('cart.emptyCart', 'Your cart is empty')
EmptyCartMessage == "Your cart is empty"

\* err.message of a createOrder that failed: the server's refusal, or the
\* TypeError of a fetch that got no response
CreateOrderErrors == {"Insufficient stock", "Failed to fetch"}

\* orderItems of handleCheckout, the body of the request
\* (variant: the whole line is sent)
OrderItemsWholeLine(its) == its

OrderItems(its) ==
    [i \in 1..Len(its) |->
        [productId |-> its[i].productId, quantity |-> its[i].quantity]]

\* the way handleCheckout takes
\* (variant: no check of items.length)
CheckoutPathUnchecked(isAuthenticated, its) ==
    IF ~isAuthenticated THEN "login" ELSE "submit"

CheckoutPath(isAuthenticated, its) ==
    IF ~isAuthenticated THEN "login"
    ELSE IF Len(its) = 0 THEN "empty"
    ELSE "submit"

\* the setItems calls handleCheckout makes after createOrder has resolved
\* (variant: the cart is kept)
OrderAcceptedUpdatesNone == <<>>

OrderAcceptedUpdates == <<Update("set", "", 0, 0, <<>>, NULL)>>

\* ... and after createOrder has thrown
\* (variant: the cart is cleared in the finally block)
OrderFailedUpdatesClear == <<Update("set", "", 0, 0, <<>>, NULL)>>

OrderFailedUpdates == <<>>

\* handleCheckout up to the await; isAuthenticated is !!user, items is the
\* items of the render the handler belongs to
HandleCheckout ==
    /\ Idle /\ createReq = <<>>
    /\ LET path == CheckoutPath(user # NULL, items)
       IN /\ checkingOut' = IF path = "submit" THEN TRUE ELSE checkingOut
          /\ checkoutError' = CASE path = "empty" -> EmptyCartMessage
                                [] path = "submit" -> NULL
                                [] OTHER -> checkoutError
          /\ createReq' = IF path = "submit" THEN <<OrderItems(items)>> ELSE <<>>
    /\ h' = Call("checkout", "", 0, 0, user, localStorage[getCartKey(userId)])
    /\ ch' = IF CheckoutPath(user # NULL, items) = "submit"
             THEN [ch EXCEPT !.userId = userId, !.items = items]
             ELSE ch
    /\ UNCHANGED <<user, userId, items, userQ, userIdQ, itemsQ, effects, localStorage,
                   departed, nMut, nSw, serverOrders, orderVars, otherPages>>

\* createOrder resolves: the server has created the order; clearCart(),
\* navigate, finally setCheckingOut(false)
CreateOrderAccepted ==
    /\ createReq # <<>> /\ Len(serverOrders) < MaxOrders
    /\ serverOrders' = Append(serverOrders, createReq[1])
    /\ itemsQ' = itemsQ \o OrderAcceptedUpdates
    /\ checkingOut' = FALSE
    /\ createReq' = <<>>
    /\ h' = [h EXCEPT !.op = "orderAccepted", !.userId0 = userId, !.items0 = items]
    /\ ch' = [ch EXCEPT !.acceptedMut = nMut]
    /\ UNCHANGED <<user, userId, items, userQ, userIdQ, effects, localStorage,
                   departed, nMut, nSw, checkoutError, orderVars, otherPages>>

\* createOrder throws: setError(err.message), finally setCheckingOut(false)
CreateOrderFails(msg) ==
    /\ createReq # <<>>
    /\ checkoutError' = msg
    /\ itemsQ' = itemsQ \o OrderFailedUpdates
    /\ checkingOut' = FALSE
    /\ createReq' = <<>>
    /\ h' = [h EXCEPT !.op = "orderFailed"]
    /\ UNCHANGED <<user, userId, items, userQ, userIdQ, effects, localStorage,
                   departed, nMut, nSw, serverOrders, ch, orderVars, otherPages>>

\* Checkout, with the calls that fill and empty the cart and that change who
\* is logged in; nothing else is done while createOrder is in flight.
NextCheckout ==
    \/ \E p \in ProductIds :
          createReq = <<>> /\ AddToCart(p, MaxStock, IF p = "p1" THEN 1 ELSE MaxStock)
    \/ createReq = <<>> /\ ClearCart
    \/ \E u \in UserIds : createReq = <<>> /\ Login(u)
    \/ createReq = <<>> /\ Logout
    \/ HandleCheckout
    \/ CreateOrderAccepted
    \/ \E msg \in CreateOrderErrors : CreateOrderFails(msg)
    \/ ReactStep

SpecCheckout == Init /\ [][NextCheckout]_vars

\* Checkout with the rest of the application alive while createOrder is in
\* flight: the quantity buttons of the cart and the product pages stay
\* usable, and the user may log out and another may log in.  The response
\* is handled when React has settled.
NextCheckoutAsync ==
    \/ \E p \in ProductIds : AddToCart(p, MaxStock, 1)
    \/ \E u \in UserIds : user = NULL /\ Login(u)
    \/ createReq # <<>> /\ Logout
    \/ HandleCheckout
    \/ Idle /\ CreateOrderAccepted
    \/ \E msg \in CreateOrderErrors : Idle /\ CreateOrderFails(msg)
    \/ ReactStep

SpecCheckoutAsync == Init /\ [][NextCheckoutAsync]_vars

\* ------------------------------------------------------------ checkout and reload
\* The server creates the order and the page is loaded again before the
\* response has been handled (the tab crashed, or the user reloaded it): the
\* rest of handleCheckout never runs, the React state is constructed anew,
\* localStorage stays.
ReloadAfterAcceptance ==
    /\ createReq # <<>> /\ Len(serverOrders) < MaxOrders
    /\ Idle /\ nSw < MaxSwitches
    /\ serverOrders' = Append(serverOrders, createReq[1])
    /\ ch' = [ch EXCEPT !.acceptedMut = nMut]
    /\ createReq' = <<>>
    /\ checkingOut' = FALSE
    /\ checkoutError' = NULL
    /\ user' = NULL
    /\ userId' = NULL
    /\ items' = <<>>
    /\ effects' = MountEffects
    /\ h' = Call("reload", "", 0, 0, NULL, <<>>)
    /\ departed' = [departed EXCEPT ![userId] = <<items>>]
    /\ nSw' = nSw + 1
    /\ UNCHANGED <<userQ, userIdQ, itemsQ, localStorage, nMut, orderVars, otherPages>>

\* One user fills the cart and checks out; the page may be reloaded while
\* createOrder is in flight.
NextCrash ==
    \/ \E p \in ProductIds :
          createReq = <<>> /\ AddToCart(p, MaxStock, IF p = "p1" THEN 1 ELSE MaxStock)
    \/ \E u \in UserIds : createReq = <<>> /\ user = NULL /\ Login(u)
    \/ HandleCheckout
    \/ CreateOrderAccepted
    \/ \E msg \in CreateOrderErrors : CreateOrderFails(msg)
    \/ ReloadAfterAcceptance
    \/ ReactStep

SpecCrash == Init /\ [][NextCrash]_vars

\* ------------------------------------------------------------ storage keys
\* User ids as a backend may issue them; setUserId takes any string.
KeyUserIds == {"u1", "u2", "u3", "7", "guest", "", "Guest", "cart_guest"}

\* getCartKey is applied to two user ids and to the guest (null)
InitKeys ==
    /\ CartInit
    /\ CartPageInit
    /\ OrderDetailsInit
    /\ OtherPagesInit
    /\ keyIn \in KeyUserIds \X KeyUserIds
    /\ keyOut = <<>>

ComputeKeys ==
    /\ keyOut = <<>>
    /\ keyOut' = <<getCartKey(keyIn[1]), getCartKey(keyIn[2]), getCartKey(NULL)>>
    /\ UNCHANGED <<user, userId, items, userQ, userIdQ, itemsQ, effects, localStorage,
                   h, departed, nMut, nSw, checkoutVars, orderVars, keyIn,
                   staleVars, adminVars, profileReq, productVars>>

NextKeys == ComputeKeys

SpecKeys == InitKeys /\ [][NextKeys]_vars

\* ------------------------------------------------------------ OrderDetails page
Statuses == {"created", "paid", "cancelled"}

\* the order the page shows, as getOrder and payOrder return it
Order(status) == [id |-> "o1", status |-> status]

\* err.message of a payOrder that failed: the error field of the server's
\* answer (a refusal, a 404), or the TypeError of a fetch that got no
\* response, in which case the server may have made the payment
PayRejections == {"Payment declined"}
PayNotFound == {"Order not found", "HTTP 404"}
PayNoResponse == {"Failed to fetch"}
PayErrors == PayRejections \cup PayNotFound \cup PayNoResponse

\* err.message of a getOrder that failed
GetOrderErrors == {"Order not found", "Failed to fetch"}

\* errorMessage.includes('not found') || errorMessage.includes('404')
IncludesNotFound(errorMessage) ==
    errorMessage = "Order not found" \/ errorMessage = "HTTP 404"

\* the guard of handlePay
\* (variant: any order that has been loaded can be paid)
CanPayLoaded(o) == o # NullOrder

CanPay(o) == o # NullOrder /\ o.status = "created"

\* what OrderDetails renders
View(isLoading, err, o) ==
    IF isLoading THEN "loading"
    ELSE IF err # NULL \/ o = NullOrder THEN "error"
    ELSE "order"

\* the pay button of the order view
PayButton(o, isPaying) ==
    IF o.status = "created"
    THEN IF isPaying THEN "disabled" ELSE "enabled"
    ELSE "none"

\* loadOrder up to the await
loadOrder(cause) ==
    /\ loading' = TRUE
    /\ loadReqs' = Append(loadReqs, cause)

RemoveAt(seq, i) == SubSeq(seq, 1, i - 1) \o SubSeq(seq, i + 1, Len(seq))

\* the effect of OrderDetails on [id, isAuthenticated], for a user who is
\* logged in
OrderDetailsEffect ==
    /\ Idle /\ ~mounted /\ user # NULL
    /\ mounted' = TRUE
    /\ loadOrder("mount")
    /\ oh' = OrderEvent("mount", NULL, NULL)
    /\ UNCHANGED <<user, userId, items, userQ, userIdQ, itemsQ, effects, localStorage,
                   h, departed, nMut, nSw, checkoutVars, otherPages,
                   order, orderError, paying, payReqs, timers, serverStatus, nPay>>

\* getOrder resolves: setOrder(data), finally setLoading(false)
GetOrderResolves(i) ==
    /\ i \in 1..Len(loadReqs)
    /\ order' = Order(serverStatus)
    /\ loading' = FALSE
    /\ loadReqs' = RemoveAt(loadReqs, i)
    /\ oh' = OrderEvent("getOrderOk", NULL, loadReqs[i])
    /\ UNCHANGED <<user, userId, items, userQ, userIdQ, itemsQ, effects, localStorage,
                   h, departed, nMut, nSw, checkoutVars, otherPages,
                   mounted, orderError, paying, payReqs, timers, serverStatus, nPay>>

\* getOrder throws: setError(err.message), finally setLoading(false)
GetOrderFails(i, msg) ==
    /\ i \in 1..Len(loadReqs)
    /\ orderError' = msg
    /\ loading' = FALSE
    /\ loadReqs' = RemoveAt(loadReqs, i)
    /\ oh' = OrderEvent("getOrderFailed", msg, loadReqs[i])
    /\ UNCHANGED <<user, userId, items, userQ, userIdQ, itemsQ, effects, localStorage,
                   h, departed, nMut, nSw, checkoutVars, otherPages,
                   mounted, order, paying, payReqs, timers, serverStatus, nPay>>

\* handlePay up to the await
HandlePay ==
    /\ mounted
    /\ IF CanPay(order)
       THEN /\ nPay < MaxPays
            /\ paying' = TRUE
            /\ orderError' = NULL
            /\ payReqs' = payReqs + 1
            /\ nPay' = nPay + 1
       ELSE UNCHANGED <<paying, orderError, payReqs, nPay>>
    /\ oh' = OrderEvent("handlePay", NULL, NULL)
    /\ UNCHANGED <<user, userId, items, userQ, userIdQ, itemsQ, effects, localStorage,
                   h, departed, nMut, nSw, checkoutVars, otherPages,
                   mounted, order, loading, loadReqs, timers, serverStatus>>

\* payOrder resolves: the server has made the payment; setOrder(updatedOrder),
\* finally setPaying(false)
PayOrderResolves ==
    /\ payReqs > 0 /\ serverStatus = "created"
    /\ serverStatus' = "paid"
    /\ order' = Order("paid")
    /\ paying' = FALSE
    /\ payReqs' = payReqs - 1
    /\ oh' = OrderEvent("payOk", NULL, NULL)
    /\ UNCHANGED <<user, userId, items, userQ, userIdQ, itemsQ, effects, localStorage,
                   h, departed, nMut, nSw, checkoutVars, otherPages,
                   mounted, loading, orderError, loadReqs, timers, nPay>>

\* payOrder throws: setError(errorMessage), the setTimeout if the message
\* says not found, finally setPaying(false).  committed: the payment was
\* made and the response was lost.
PayOrderFails(msg, committed) ==
    /\ payReqs > 0
    /\ committed => (msg \in PayNoResponse /\ serverStatus = "created")
    /\ serverStatus' = IF committed THEN "paid" ELSE serverStatus
    /\ orderError' = msg
    /\ timers' = IF IncludesNotFound(msg) THEN timers + 1 ELSE timers
    /\ paying' = FALSE
    /\ payReqs' = payReqs - 1
    /\ oh' = OrderEvent("payFailed", msg, NULL)
    /\ UNCHANGED <<user, userId, items, userQ, userIdQ, itemsQ, effects, localStorage,
                   h, departed, nMut, nSw, checkoutVars, otherPages,
                   mounted, order, loading, loadReqs, nPay>>

\* the callback of setTimeout: loadOrder()
TimerFires ==
    /\ timers > 0
    /\ timers' = timers - 1
    /\ loadOrder("timer")
    /\ oh' = OrderEvent("timer", NULL, NULL)
    /\ UNCHANGED <<user, userId, items, userQ, userIdQ, itemsQ, effects, localStorage,
                   h, departed, nMut, nSw, checkoutVars, otherPages,
                   mounted, order, orderError, paying, payReqs, serverStatus, nPay>>

\* an administrator cancels the order (AdminOrders, on another screen)
ServerCancels ==
    /\ serverStatus = "created"
    /\ serverStatus' = "cancelled"
    /\ UNCHANGED <<user, userId, items, userQ, userIdQ, itemsQ, effects, localStorage,
                   h, departed, nMut, nSw, checkoutVars, otherPages,
                   mounted, order, loading, orderError, paying, payReqs, loadReqs,
                   timers, oh, nPay>>

\* A user logs in and opens the page of an order; handlePay is called in
\* every state of the page.
NextOrder ==
    \/ \E u \in UserIds : ~mounted /\ Login(u)
    \/ OrderDetailsEffect
    \/ \E i \in 1..Len(loadReqs) : GetOrderResolves(i)
    \/ \E i \in 1..Len(loadReqs), msg \in GetOrderErrors : GetOrderFails(i, msg)
    \/ HandlePay
    \/ PayOrderResolves
    \/ \E msg \in PayErrors, committed \in BOOLEAN : PayOrderFails(msg, committed)
    \/ TimerFires
    \/ ServerCancels
    \/ ReactStep

SpecOrder == Init /\ [][NextOrder]_vars

\* ------------------------------------------------------------ OrderDetails, as the user drives it
\* everything an OrderDetails instance has started and that has not ended
InFlight == payReqs + Len(loadReqs) + timers + stalePay + staleLoads + staleTimers

\* the timers of an instance when it is unmounted: neither the effect nor
\* handlePay has a cleanup that calls clearTimeout
\* (variant: unmounting clears the instance's timers)
TimersAfterUnmountCleared(stale, current) == stale

TimersAfterUnmount(stale, current) == stale + current

\* a click on the pay button, which is rendered in the order view for
\* status created and disabled while paying
ClickPay ==
    /\ View(loading, orderError, order) = "order"
    /\ PayButton(order, paying) = "enabled"
    /\ HandlePay

\* the user leaves the page: the instance is unmounted and its state is
\* dropped; what it has started goes on.  The next visit renders a new
\* instance.
Unmount ==
    /\ mounted /\ InFlight < MaxInFlight
    /\ mounted' = FALSE
    /\ order' = NullOrder
    /\ loading' = TRUE
    /\ orderError' = NULL
    /\ paying' = FALSE
    /\ stalePay' = stalePay + payReqs
    /\ payReqs' = 0
    /\ staleLoads' = staleLoads + Len(loadReqs)
    /\ loadReqs' = <<>>
    /\ staleTimers' = TimersAfterUnmount(staleTimers, timers)
    /\ timers' = 0
    /\ oh' = OrderEvent("unmount", NULL, NULL)
    /\ UNCHANGED <<user, userId, items, userQ, userIdQ, itemsQ, effects, localStorage,
                   h, departed, nMut, nSw, checkoutVars, keyVars, adminVars, profileReq,
                   productVars, serverStatus, nPay>>

\* payOrder of an unmounted instance resolves: its setOrder and setPaying
\* change nothing
StalePayResolves ==
    /\ stalePay > 0 /\ serverStatus = "created"
    /\ serverStatus' = "paid"
    /\ stalePay' = stalePay - 1
    /\ UNCHANGED <<user, userId, items, userQ, userIdQ, itemsQ, effects, localStorage,
                   h, departed, nMut, nSw, checkoutVars, keyVars, adminVars, profileReq,
                   productVars, mounted, order, loading, orderError, paying, payReqs,
                   loadReqs, timers, oh, nPay, staleLoads, staleTimers>>

\* payOrder of an unmounted instance throws: its catch block still runs
StalePayFails(msg, committed) ==
    /\ stalePay > 0
    /\ committed => (msg \in PayNoResponse /\ serverStatus = "created")
    /\ serverStatus' = IF committed THEN "paid" ELSE serverStatus
    /\ stalePay' = stalePay - 1
    /\ staleTimers' = IF IncludesNotFound(msg) THEN staleTimers + 1 ELSE staleTimers
    /\ UNCHANGED <<user, userId, items, userQ, userIdQ, itemsQ, effects, localStorage,
                   h, departed, nMut, nSw, checkoutVars, keyVars, adminVars, profileReq,
                   productVars, mounted, order, loading, orderError, paying, payReqs,
                   loadReqs, timers, oh, nPay, staleLoads>>

\* the setTimeout callback of an unmounted instance: loadOrder()
StaleTimerFires ==
    /\ staleTimers > 0
    /\ staleTimers' = staleTimers - 1
    /\ staleLoads' = staleLoads + 1
    /\ UNCHANGED <<user, userId, items, userQ, userIdQ, itemsQ, effects, localStorage,
                   h, departed, nMut, nSw, checkoutVars, keyVars, adminVars, profileReq,
                   productVars, orderVars, stalePay>>

\* getOrder of an unmounted instance returns
StaleGetOrderReturns ==
    /\ staleLoads > 0
    /\ staleLoads' = staleLoads - 1
    /\ UNCHANGED <<user, userId, items, userQ, userIdQ, itemsQ, effects, localStorage,
                   h, departed, nMut, nSw, checkoutVars, keyVars, adminVars, profileReq,
                   productVars, orderVars, stalePay, staleTimers>>

\* A user logs in, opens the page of an order, pays with the button, leaves
\* the page and comes back.
NextOrderUI ==
    \/ \E u \in UserIds : user = NULL /\ Login(u)
    \/ OrderDetailsEffect
    \/ \E i \in 1..Len(loadReqs) : GetOrderResolves(i)
    \/ \E i \in 1..Len(loadReqs), msg \in GetOrderErrors : GetOrderFails(i, msg)
    \/ ClickPay
    \/ PayOrderResolves
    \/ \E msg \in PayErrors, committed \in BOOLEAN : PayOrderFails(msg, committed)
    \/ TimerFires
    \/ Unmount
    \/ StalePayResolves
    \/ \E msg \in PayErrors, committed \in BOOLEAN : StalePayFails(msg, committed)
    \/ StaleTimerFires
    \/ StaleGetOrderReturns
    \/ ReactStep

SpecOrderUI == Init /\ [][NextOrderUI]_vars

\* the browser runs every callback whose delay has passed
SpecOrderUIFair ==
    /\ Init /\ [][NextOrderUI]_vars
    /\ WF_vars(TimerFires)
    /\ WF_vars(StaleTimerFires)

\* ------------------------------------------------------------ AdminOrders page
LoadRequest == [kind |-> "load", from |-> NULL, to |-> NULL]
UpdateRequest(from, to) == [kind |-> "update", from |-> from, to |-> to]

UpdateInFlight == \E i \in 1..Len(adminReqs) : adminReqs[i].kind = "update"

\* the options of the status select of an order
StatusOptions(status) == Statuses \ {status}

\* the effect of AdminOrders, for a user who is logged in: loadOrders()
AdminOrdersEffect ==
    /\ Idle /\ user # NULL
    /\ adminStatus = NULL /\ adminReqs = <<>>
    /\ adminReqs' = Append(adminReqs, LoadRequest)
    /\ UNCHANGED <<user, userId, items, userQ, userIdQ, itemsQ, effects, localStorage,
                   h, departed, nMut, nSw, checkoutVars, orderVars, keyVars, staleVars,
                   profileReq, productVars, adminStatus>>

\* getAllOrders returns: setOrders(result.data)
AdminLoadReturns(i) ==
    /\ i \in 1..Len(adminReqs) /\ adminReqs[i].kind = "load"
    /\ adminStatus' = serverStatus
    /\ adminReqs' = RemoveAt(adminReqs, i)
    /\ UNCHANGED <<user, userId, items, userQ, userIdQ, itemsQ, effects, localStorage,
                   h, departed, nMut, nSw, checkoutVars, orderVars, keyVars, staleVars,
                   profileReq, productVars>>

\* handleStatusChange up to the await; the select is disabled while an
\* update of the order is running
HandleStatusChange(newStatus) ==
    /\ adminStatus # NULL /\ ~UpdateInFlight
    /\ Len(adminReqs) < MaxInFlight
    /\ newStatus \in StatusOptions(adminStatus)
    /\ adminReqs' = Append(adminReqs, UpdateRequest(adminStatus, newStatus))
    /\ UNCHANGED <<user, userId, items, userQ, userIdQ, itemsQ, effects, localStorage,
                   h, departed, nMut, nSw, checkoutVars, orderVars, keyVars, staleVars,
                   profileReq, productVars, adminStatus>>

\* updateOrderStatus resolves: the server has set the status; loadOrders()
UpdateStatusResolves(i) ==
    /\ i \in 1..Len(adminReqs) /\ adminReqs[i].kind = "update"
    /\ serverStatus' = adminReqs[i].to
    /\ adminReqs' = Append(RemoveAt(adminReqs, i), LoadRequest)
    /\ UNCHANGED <<user, userId, items, userQ, userIdQ, itemsQ, effects, localStorage,
                   h, departed, nMut, nSw, checkoutVars, keyVars, staleVars,
                   profileReq, productVars, adminStatus,
                   mounted, order, loading, orderError, paying, payReqs, loadReqs,
                   timers, oh, nPay>>

\* updateOrderStatus throws (the server refuses, or no response): setError
UpdateStatusFails(i) ==
    /\ i \in 1..Len(adminReqs) /\ adminReqs[i].kind = "update"
    /\ adminReqs' = RemoveAt(adminReqs, i)
    /\ UNCHANGED <<user, userId, items, userQ, userIdQ, itemsQ, effects, localStorage,
                   h, departed, nMut, nSw, checkoutVars, orderVars, keyVars, staleVars,
                   profileReq, productVars, adminStatus>>

\* The administrator's console and the customer's order page, on the same
\* order.
NextAdmin ==
    \/ \E u \in UserIds : user = NULL /\ Login(u)
    \/ AdminOrdersEffect
    \/ \E i \in 1..Len(adminReqs) : AdminLoadReturns(i)
    \/ \E newStatus \in Statuses : HandleStatusChange(newStatus)
    \/ \E i \in 1..Len(adminReqs) : UpdateStatusResolves(i)
    \/ \E i \in 1..Len(adminReqs) : UpdateStatusFails(i)
    \/ OrderDetailsEffect
    \/ \E i \in 1..Len(loadReqs) : GetOrderResolves(i)
    \/ ClickPay
    \/ PayOrderResolves
    \/ \E msg \in PayRejections : PayOrderFails(msg, FALSE)
    \/ ReactStep

SpecAdmin == Init /\ [][NextAdmin]_vars

\* ------------------------------------------------------------ ProductDetails and Cart handlers
\* parseInt(e.target.value) || 1, for the number typed into a quantity input
InputValue(n) == IF n = 0 THEN 1 ELSE n

\* the numbers a user may type
TypedNumbers == -1..(MaxQty + 1)

\* Math.min(product.stock, 99)
maxQuantity(prod) ==
    IF prod = NullProduct THEN 1
    ELSE IF prod.stock <= 99 THEN prod.stock ELSE 99

isOutOfStock(prod) == prod # NullProduct /\ prod.stock = 0

\* the quantity selector and the add button are rendered
SelectorRendered(prod) == prod # NullProduct /\ ~isOutOfStock(prod)

\* the add button: disabled={addingToCart || quantity > product.stock || quantity < 1}
AddButtonEnabled(prod, qty, adding) ==
    /\ SelectorRendered(prod)
    /\ ~(adding \/ qty > prod.stock \/ qty < 1)

\* what handleAddToCart does with the product, the selected quantity and
\* whether the cart of this render has a line for the product
\* (variant: addToCart is called for a product that has a line as well)
AddToCartPathAlwaysAdd(prod, qty, hasCartItem) ==
    IF prod = NullProduct THEN "none"
    ELSE IF qty > prod.stock THEN "alert"
    ELSE "add"

AddToCartPath(prod, qty, hasCartItem) ==
    IF prod = NullProduct THEN "none"
    ELSE IF qty > prod.stock THEN "alert"
    ELSE IF hasCartItem THEN "update"
    ELSE "add"

\* the setItems call updateQuantity(productId, quantity) makes
updateQuantityUpdate(productId, qty) ==
    IF qty <= 0 THEN Update("remove", productId, 0, 0, <<>>, NULL)
                ELSE Update("update", productId, qty, 0, <<>>, NULL)

\* the product page is opened: a new ProductDetails, nothing loaded yet
OpenProductPage ==
    /\ Idle
    /\ viewedProduct' = NullProduct
    /\ selectedQuantity' = 1
    /\ addingToCart' = FALSE
    /\ UNCHANGED <<user, userId, items, userQ, userIdQ, itemsQ, effects, localStorage,
                   h, departed, nMut, nSw, checkoutVars, orderVars, keyVars, staleVars,
                   adminVars, profileReq>>

\* loadProduct (first load, another product id, or another language): the
\* server's product with the stock it has now; the selector keeps its value
LoadProduct(p, s) ==
    /\ Idle
    /\ viewedProduct' = Product(p, s)
    /\ UNCHANGED <<user, userId, items, userQ, userIdQ, itemsQ, effects, localStorage,
                   h, departed, nMut, nSw, checkoutVars, orderVars, keyVars, staleVars,
                   adminVars, profileReq, selectedQuantity, addingToCart>>

\* ProductDetails.handleQuantityChange, from the typed number or a button
ProductHandleQuantityChange(newQuantity) ==
    /\ Idle /\ SelectorRendered(viewedProduct)
    /\ selectedQuantity' =
          IF newQuantity < 1 THEN 1
          ELSE IF newQuantity > maxQuantity(viewedProduct) THEN maxQuantity(viewedProduct)
          ELSE newQuantity
    /\ UNCHANGED <<user, userId, items, userQ, userIdQ, itemsQ, effects, localStorage,
                   h, departed, nMut, nSw, checkoutVars, orderVars, keyVars, staleVars,
                   adminVars, profileReq, viewedProduct, addingToCart>>

\* ProductDetails.handleAddToCart, from the add button
HandleAddToCart ==
    /\ Idle /\ nMut < MaxMutations
    /\ AddButtonEnabled(viewedProduct, selectedQuantity, addingToCart)
    /\ LET path == AddToCartPath(viewedProduct, selectedQuantity,
                                 HasItem(items, viewedProduct.id))
           called == path \in {"update", "add"}
       IN /\ itemsQ' =
                CASE path = "update" ->
                       Append(itemsQ, updateQuantityUpdate(viewedProduct.id, selectedQuantity))
                  [] path = "add" ->
                       Append(itemsQ, Update("add", viewedProduct.id, selectedQuantity,
                                             viewedProduct.stock, <<>>, NULL))
                  [] OTHER -> itemsQ
          /\ selectedQuantity' = IF called THEN 1 ELSE selectedQuantity
          /\ addingToCart' = IF called THEN TRUE ELSE addingToCart
    /\ h' = Call("handleAddToCart", viewedProduct.id, selectedQuantity,
                 viewedProduct.stock, NULL, <<>>)
    /\ nMut' = nMut + 1
    /\ UNCHANGED <<user, userId, items, userQ, userIdQ, effects, localStorage,
                   departed, nSw, checkoutVars, orderVars, keyVars, staleVars,
                   adminVars, profileReq, viewedProduct>>

\* setTimeout(() => setAddingToCart(false), 500)
AddingTimerFires ==
    /\ Idle /\ addingToCart
    /\ addingToCart' = FALSE
    /\ UNCHANGED <<user, userId, items, userQ, userIdQ, itemsQ, effects, localStorage,
                   h, departed, nMut, nSw, checkoutVars, orderVars, keyVars, staleVars,
                   adminVars, profileReq, viewedProduct, selectedQuantity>>

\* Cart.handleQuantityChange for a line of the cart, from the typed number
\* or a button
CartHandleQuantityChange(productId, newQuantity) ==
    /\ Idle /\ nMut < MaxMutations
    /\ HasItem(items, productId)
    /\ itemsQ' =
          IF newQuantity < 1
          THEN Append(itemsQ, Update("remove", productId, 0, 0, <<>>, NULL))
          ELSE IF newQuantity > ItemOf(items, productId).stock
          THEN itemsQ
          ELSE Append(itemsQ, updateQuantityUpdate(productId, newQuantity))
    /\ h' = Call("handleQuantityChange", productId, newQuantity, 0, NULL, <<>>)
    /\ nMut' = nMut + 1
    /\ UNCHANGED <<user, userId, items, userQ, userIdQ, effects, localStorage,
                   departed, nSw, pageVars>>

\* the remove button of a line of the cart
RemoveButton(productId) ==
    /\ HasItem(items, productId)
    /\ RemoveFromCart(productId)

\* The cart changes through the pages only; the server's stock differs from
\* one load of a product to the next.
NextPages ==
    \/ OpenProductPage
    \/ \E p \in ProductIds, s \in Stocks : LoadProduct(p, s)
    \/ \E n \in TypedNumbers : ProductHandleQuantityChange(InputValue(n))
    \/ HandleAddToCart
    \/ AddingTimerFires
    \/ \E p \in ProductIds, n \in TypedNumbers : CartHandleQuantityChange(p, InputValue(n))
    \/ \E p \in ProductIds : RemoveButton(p)
    \/ ReactStep

SpecPages == Init /\ [][NextPages]_vars

\* ------------------------------------------------------------ refreshUser
\* what setAuth stores as authToken when it is given getAuthToken():
\* localStorage.setItem turns null into the string "null"
StoredToken(token) == IF token = <<>> THEN <<"null">> ELSE token

\* refreshUser(), called by the Profile page after a profile update: the
\* getProfile request is sent with the token of the logged-in user
RefreshUser ==
    /\ Idle /\ user # NULL /\ profileReq = <<>>
    /\ profileReq' = <<user>>
    /\ UNCHANGED <<user, userId, items, userQ, userIdQ, itemsQ, effects, localStorage,
                   h, departed, nMut, nSw, checkoutVars, orderVars, keyVars, staleVars,
                   adminVars, productVars>>

\* getProfile resolves: setAuth(getAuthToken()!, updatedUser),
\* setUser(updatedUser)
ProfileResolves ==
    /\ Idle /\ profileReq # <<>>
    /\ localStorage' = [localStorage EXCEPT
                           !["authToken"] = StoredToken(localStorage["authToken"]),
                           !["user"] = <<profileReq[1]>>]
    /\ userQ' = Append(userQ, profileReq[1])
    /\ profileReq' = <<>>
    /\ UNCHANGED <<user, userId, items, userIdQ, itemsQ, effects,
                   h, departed, nMut, nSw, checkoutVars, orderVars, keyVars, staleVars,
                   adminVars, productVars>>

\* getProfile throws: console.error
ProfileFails ==
    /\ Idle /\ profileReq # <<>>
    /\ profileReq' = <<>>
    /\ UNCHANGED <<user, userId, items, userQ, userIdQ, itemsQ, effects, localStorage,
                   h, departed, nMut, nSw, checkoutVars, orderVars, keyVars, staleVars,
                   adminVars, productVars>>

\* A user logs in, refreshes the profile and logs out, in any order.
NextRefresh ==
    \/ \E u \in UserIds : user = NULL /\ Login(u)
    \/ user # NULL /\ Logout
    \/ \E p \in ProductIds : AddToCart(p, MaxStock, 1)
    \/ RefreshUser
    \/ ProfileResolves
    \/ ProfileFails
    \/ ReactStep

SpecRefresh == Init /\ [][NextRefresh]_vars

\* ------------------------------------------------------------ type
TypeOK ==
    /\ user \in Identities
    /\ userId \in Identities
    /\ \A i \in 1..Len(items) : items[i].productId \in ProductIds

\* ------------------------------------------------------------ claims
Min2(a, b) == IF a <= b THEN a ELSE b
Max2(a, b) == IF a >= b THEN a ELSE b

MutationOps == {"addToCart", "updateQuantity", "removeFromCart", "clearCart"}
SwitchOps == {"setUserId", "login", "logout"}

\* the line addToCart would insert if it clamped the quantity to 1..stock
ClampedLine(p, s, q) ==
    [productId |-> p, name |-> ProductName(p), priceCents |-> ProductPrice(p),
     imageBase64 |-> ProductImage(p), quantity |-> Max2(1, Min2(q, s)), stock |-> s]

LinesOf(its, p) == {i \in 1..Len(its) : its[i].productId = p}

\* C1: after any sequence of addToCart, updateQuantity and removeFromCart
\* calls, every line of the cart has 1 <= quantity <= the stock stored on it.
C1_QuantityWithinStock ==
    \A i \in 1..Len(items) :
        items[i].quantity >= 1 /\ items[i].quantity <= items[i].stock

\* C2: addToCart for a product that is not in the cart appends exactly one
\* line whose quantity is min(requested, stock), at least 1.
C2_AddInsertsClamped ==
    (Idle /\ h.op = "addToCart" /\ ~HasItem(h.items0, h.p))
        => items = Append(h.items0, ClampedLine(h.p, h.s, h.q))

\* C3: addToCart for a product whose line is there from an earlier
\* addToCart with the same stock s (quantity q1) leaves exactly one line for
\* it, with quantity min(q2, s), at least 1.
C3_AddTwiceReplacesClamped ==
    (/\ Idle /\ h.op = "addToCart" /\ HasItem(h.items0, h.p)
     /\ ItemOf(h.items0, h.p).stock = h.s)
        => /\ Cardinality(LinesOf(items, h.p)) = 1
           /\ ItemOf(items, h.p).quantity = Max2(1, Min2(h.q, h.s))

\* C4: updateQuantity with a quantity above the stock stored on the line is
\* rejected: every line of the cart is as it was before the call.
C4_UpdateAboveStockRejected ==
    (/\ Idle /\ h.op = "updateQuantity" /\ HasItem(h.items0, h.p)
     /\ h.q > ItemOf(h.items0, h.p).stock)
        => items = h.items0

C4_Witness ==
    /\ Idle /\ h.op = "updateQuantity" /\ HasItem(h.items0, h.p)
    /\ h.q > ItemOf(h.items0, h.p).stock
    /\ ItemOf(h.items0, h.p).quantity \in 1..ItemOf(h.items0, h.p).stock
    /\ ItemOf(h.items0, h.p).quantity < ItemOf(h.items0, h.p).stock
    /\ Len(items) = 2

\* C5: when the identity changes back to a user that was left earlier, the
\* cart in memory is that user's cart as it was when the user was left.
C5_RoundTripRestoresCart ==
    (/\ Idle /\ h.op \in SwitchOps /\ userId # h.userId0
     /\ userId \in UserIds /\ departed[userId] # <<>>)
        => items = departed[userId][1]

C5_Witness ==
    /\ Idle /\ h.op \in SwitchOps /\ userId # h.userId0
    /\ userId \in UserIds /\ departed[userId] # <<>>
    /\ items # <<>>
    /\ \E b \in UserIds \ {userId} :
          /\ SavedCart(localStorage[getCartKey(b)]) # <<>>
          /\ SavedCart(localStorage[getCartKey(b)]) # items

\* C6: after guest -> login -> logout the cart in memory is the guest cart
\* as it was before the login.
C6_GuestCartRestored ==
    (/\ Idle /\ h.op = "logout" /\ userId = NULL /\ h.userId0 \in UserIds
     /\ departed[NULL] # <<>>)
        => items = departed[NULL][1]

\* C7: once a mutating cart call has completed, the snapshot stored under
\* the active identity's key is the cart in memory, for a user and for the
\* guest alike.
C7_StoredSnapshotIsCart ==
    (Idle /\ h.op \in MutationOps)
        => localStorage[getCartKey(userId)] = <<Stringify(items)>>

\* C8: setUserId with the identity that is already active changes neither
\* the cart in memory nor the snapshot stored under its key.
C8_SetSameIdentityNoOp ==
    (Idle /\ h.op = "setUserId" /\ h.k = h.userId0)
        => /\ items = h.items0
           /\ localStorage[getCartKey(h.k)] = h.snap0

\* C9: once a change of identity from A to B has completed, the cart in
\* memory is the cart that was stored under B's key before the change
\* (empty if none), and so is the cart stored under B's key.
C9_SwitchLoadsTargetCart ==
    (Idle /\ h.op \in SwitchOps /\ userId # h.userId0 /\ userId = h.k)
        => /\ items = SavedCart(h.snap0)
           /\ SavedCart(localStorage[getCartKey(userId)]) = SavedCart(h.snap0)

C9_Witness ==
    /\ Idle /\ h.op \in SwitchOps /\ userId # h.userId0 /\ userId = h.k
    /\ h.items0 # <<>>
    /\ items # <<>>
    /\ \A i \in 1..Len(items) : ~HasItem(h.items0, items[i].productId)

\* C10: every step that changes the snapshot stored under a cart key
\* changes the key of the identity that is active when the step is taken.
C10_WritesOnlyActiveKey ==
    [][\A k \in CartKeys :
          localStorage'[k] # localStorage[k] => k = getCartKey(userId)]_vars

C10_Witness ==
    /\ Idle /\ h.op \in MutationOps /\ userId \in UserIds
    /\ items # <<>>
    /\ \E a \in UserIds \ {userId} :
          /\ SavedCart(localStorage[getCartKey(a)]) # <<>>
          /\ SavedCart(localStorage[getCartKey(a)]) # items

\* C11: the key of a user id is never the key of the guest, and two
\* different user ids never have the same key, for every user id string
\* ("guest" and the empty string included).
C11_KeysDistinct ==
    (keyOut # <<>>)
        => /\ keyOut[1] # keyOut[3]
           /\ keyIn[1] # keyIn[2] => keyOut[1] # keyOut[2]

\* C12: in every reachable state, after cart calls and changes of identity
\* that load a cart from the store, no two lines of the cart have the same
\* productId.
C12_OneLinePerProduct ==
    \A i, j \in 1..Len(items) :
        items[i].productId = items[j].productId => i = j

C12_Witness ==
    /\ Idle /\ h.op = "addToCart" /\ HasItem(h.items0, h.p)
    /\ Len(items) = 2
    /\ userId \in UserIds /\ departed[userId] # <<>>

\* C13: checkout by a user who is logged in, with no line in the cart,
\* sets the empty-cart error and sends no createOrder request.
C13_EmptyCartNotSent ==
    (h.op = "checkout" /\ h.k # NULL /\ h.items0 = <<>>)
        => /\ checkoutError = EmptyCartMessage
           /\ createReq = <<>>
           /\ ~checkingOut

C13_Witness ==
    /\ h.op = "checkout" /\ h.k # NULL /\ h.items0 = <<>>
    /\ serverOrders # <<>>
    /\ localStorage[getCartKey(h.k)] = <<Stringify(<<>>)>>

C15_FailedKeepsCart ==
    (Idle /\ h.op = "orderFailed" /\ h.items0 # <<>>)
        => /\ items = h.items0
           /\ localStorage[getCartKey(h.k)] = h.snap0
           /\ ~checkingOut /\ createReq = <<>>
           /\ user = h.k

C15_Witness ==
    /\ Idle /\ h.op = "orderFailed" /\ Len(h.items0) = 2
    /\ checkoutError \in CreateOrderErrors
    /\ SavedCart(h.snap0) = h.items0

\* C16: the createOrder request has one entry for each line of the cart,
\* in the cart's order, and an entry has the productId and the quantity of
\* its line and no other field.
C16_RequestMirrorsCart ==
    (createReq # <<>>)
        => /\ h.op = "checkout"
           /\ Len(createReq[1]) = Len(h.items0)
           /\ \A i \in 1..Len(h.items0) :
                 /\ DOMAIN createReq[1][i] = {"productId", "quantity"}
                 /\ createReq[1][i].productId = h.items0[i].productId
                 /\ createReq[1][i].quantity = h.items0[i].quantity

C16_Witness ==
    /\ createReq # <<>> /\ Len(h.items0) = 2
    /\ h.items0[1].quantity # h.items0[2].quantity

\* C17: handlePay called while the cached status is paid or cancelled
\* changes nothing: no payOrder request, and the cached order, the error
\* and the paying flag are as before; a payOrder request is sent only when
\* the cached status is created.
C17_PayNoOpWhenSettled ==
    /\ (oh.ev = "handlePay" /\ oh.order0 # NullOrder /\ oh.order0.status \in {"paid", "cancelled"})
          => /\ payReqs = oh.payReqs0
             /\ order = oh.order0
             /\ orderError = oh.error0
             /\ paying = oh.paying0
    /\ (oh.ev = "handlePay" /\ payReqs # oh.payReqs0)
          => (oh.order0 # NullOrder /\ oh.order0.status = "created")

C17_Witness ==
    /\ oh.ev = "handlePay" /\ oh.order0 # NullOrder /\ oh.order0.status = "cancelled"
    /\ oh.error0 # NULL
    /\ nPay > 0 /\ nPay < MaxPays

\* C18: after a payment the server has rejected, the cached order is as it
\* was, with status created, and the page offers the pay action again.
C18_RejectedPayRetryable ==
    (oh.ev = "payFailed" /\ oh.msg \in PayRejections)
        => /\ order = oh.order0
           /\ order # NullOrder /\ order.status = "created"
           /\ View(loading, orderError, order) = "order"
           /\ PayButton(order, paying) = "enabled"

\* C19: a payment that ends without a known outcome (no response, or an
\* answer that says not found) schedules exactly one delayed loadOrder, and
\* once that loadOrder has returned the cached status is the server's.
C19_IndeterminateRefetches ==
    /\ (oh.ev = "payFailed" /\ oh.msg \in PayNotFound \cup PayNoResponse)
          => timers = oh.timers0 + 1
    /\ (oh.ev = "getOrderOk" /\ oh.cause = "timer")
          => (order # NullOrder /\ order.status = oh.server0)

\* C20: a payment without a known outcome is not shown as a failure: from
\* the failure until the delayed loadOrder has returned no error is set and
\* the page shows that it is working, and after that the page shows the
\* order with the server's status.
C20_IndeterminateNotShownAsFailure ==
    /\ ((oh.ev = "payFailed" /\ oh.msg \in PayNotFound \cup PayNoResponse)
          \/ (oh.ev = "timer"))
          => /\ orderError = NULL
             /\ paying \/ loading
    /\ (oh.ev = "getOrderOk" /\ oh.cause = "timer")
          => /\ View(loading, orderError, order) = "order"
             /\ order.status = oh.server0

\* C21: a delayed loadOrder that has been scheduled is never cancelled, runs
\* exactly once and does run in the end, also when the page has been left
\* and the instance unmounted: a timer goes away only by running, each run
\* starts one getOrder, and no timer stays pending for ever.
C21_RefetchRunsOnce ==
    /\ [][(timers' + staleTimers' < timers + staleTimers)
            => /\ timers' + staleTimers' = timers + staleTimers - 1
               /\ Len(loadReqs') + staleLoads' = Len(loadReqs) + staleLoads + 1]_vars
    /\ ((timers + staleTimers > 0) ~> (timers + staleTimers = 0))

C21_Witness ==
    /\ ~mounted /\ oh.ev = "unmount" /\ oh.timers0 > 0
    /\ staleTimers > 0

\* C22: at most one payOrder request for the order is in flight at any
\* time.
C22_OnePayInFlight ==
    payReqs + stalePay <= 1

\* C23: paid and cancelled are terminal: every status change this client
\* requests is created -> paid or created -> cancelled, and the status of
\* an order that is paid or cancelled does not change.
C23_TerminalStatuses ==
    /\ [](\A i \in 1..Len(adminReqs) :
            adminReqs[i].kind = "update"
                => (adminReqs[i].from = "created" /\ adminReqs[i].to \in {"paid", "cancelled"}))
    /\ [][(serverStatus \in {"paid", "cancelled"}) => (serverStatus' = serverStatus)]_vars

\* C24: a cart is ordered at most once: a checkout called when the cart has
\* not been changed since the server accepted an order of the same user
\* finds the cart empty and sends no createOrder request, also when the
\* page was reloaded between the acceptance and clearCart.
C24_OrderedAtMostOnce ==
    (h.op = "checkout" /\ h.k # NULL /\ h.k = ch.userId /\ ch.acceptedMut = nMut)
        => /\ h.items0 = <<>>
           /\ createReq = <<>>

DuringOps == {"addToCartDuring", "removeFromCartDuring", "updateQuantityDuring"}

\* C25: a cart call made after setUserId(B) and before B's stored cart is in
\* memory takes effect on B's loaded cart only: once React has settled, the
\* cart in memory and the snapshot under B's key are B's stored cart with
\* the call applied, and the snapshot of the identity that was left is the
\* cart it had.
C25_SwitchIsBarrier ==
    (Idle /\ h.op \in DuringOps)
        => /\ userId = h.k
           /\ items = ApplyUpdate(UpdaterOf(h), SavedCart(h.snap0))
           /\ h.k # NULL => localStorage[getCartKey(h.k)] = <<Stringify(items)>>
           /\ h.userId0 # NULL
                => localStorage[getCartKey(h.userId0)] = <<Stringify(h.items0)>>

\* C26: activating an identity K that has a stored cart never overwrites
\* K's snapshot with other contents: from the call that activates K on,
\* after every effect and every render until the next call, the snapshot
\* under K's key is what was stored when the call was made.
C26_ActivationKeepsSnapshot ==
    (/\ h.op \in SwitchOps /\ h.k \in UserIds /\ h.k # h.userId0
     /\ h.snap0 # <<>> /\ SavedCart(h.snap0) # <<>>)
        => localStorage[getCartKey(h.k)] = h.snap0

\* C27: the clearCart after an accepted checkout removes only what was
\* ordered: a line that was in the cart when the response arrived and whose
\* product was not in the request, or that belongs to the cart of another
\* identity than the one that sent the request, is still in the cart after
\* the clear.
C27_ClearRemovesOnlyOrdered ==
    (Idle /\ h.op = "orderAccepted")
        => \A i \in 1..Len(h.items0) :
              (h.userId0 # ch.userId \/ ~HasItem(ch.items, h.items0[i].productId))
                  => HasItem(items, h.items0[i].productId)

\* C28: after logout the identity is null and no auth token is stored until
\* the next login: as long as logout is the last call, the user is (or is
\* about to be rendered as) null and localStorage has no authToken, also
\* when a refreshUser was in flight at the logout.
C28_LogoutStays ==
    (h.op = "logout")
        => /\ Last(userQ, user) = NULL
           /\ localStorage["authToken"] = <<>>

\* C29: when the cart is changed through the pages only (the add button of
\* ProductDetails with its selector, the quantity controls and the remove
\* button of Cart), with a stock that differs from load to load, every line
\* of the cart has a quantity from 1 to the stock stored on it.
C29_PagesKeepQuantityInStock ==
    \A i \in DOMAIN items : items[i].quantity \in 1..items[i].stock

C29_Witness ==
    /\ Idle /\ h.op = "handleAddToCart" /\ HasItem(h.items0, h.p)
    /\ ItemOf(h.items0, h.p).stock < h.q /\ h.q <= h.s
    /\ HasItem(items, h.p)

\* C30: when handleAddToCart of ProductDetails passes its stock guard
\* (selected quantity <= the loaded product.stock) for a product that has a
\* line in the cart, the line ends with the selected quantity, whatever
\* stock is stored on the line.
C30_PageAddSetsQuantity ==
    (/\ Idle /\ h.op = "handleAddToCart" /\ HasItem(h.items0, h.p)
     /\ h.q <= h.s)
        => /\ HasItem(items, h.p)
           /\ ItemOf(items, h.p).quantity = h.q

====
